---- MODULE Spec2Model ----
(***************************************************************************)
(* Session / quota / referral bookkeeping of the CripteX backend           *)
(* (src/backend/server.py).  The document store (db.users, db.sessions,    *)
(* db.predictions) is shared by request handlers that run concurrently:    *)
(* every `await` on the store is one atomic step, and a handler that       *)
(* awaits the store more than once is split at those awaits.               *)
(***************************************************************************)
EXTENDS Integers, Sequences, FiniteSets, TLC

(* ---------------- bounds of the model ---------------- *)
NumIds == 2            \* identity ids the provider can return: 1..NumIds
NumEmails == 3         \* e-mail addresses the provider can return
NumCodes == 2          \* values uuid4()[:8] is drawn from
NumTokens == 3         \* session tokens the provider can return
NumSlots == 2          \* handlers in flight at once
MaxUsers == 2          \* documents in db.users
MaxSessions == 2       \* documents in db.sessions
MaxAccounts == 3       \* documents in db.users while handlers run one at a time
MaxPredictions == 6    \* documents in db.predictions
MaxPriced == 2         \* documents in db.predictions of any symbol and price
DayLen == 2            \* clock ticks per day
MaxEarly == 0          \* the clock is observed at 0..MaxEarly ...
MaxLate == 2           \* ... and at SessionTTL..SessionTTL+MaxLate
MinListed == 3         \* listings are examined with 0..MinListed documents in
MaxListed == 104       \* db.predictions and with ListLimit-1..MaxListed

(* ---------------- program constants ---------------- *)
InitialFree == 5       \* "free_predictions": 5
SessionDays == 7       \* timedelta(days=7)
ListLimit == 100       \* to_list(100)
DefaultPrice == 45230500   \* current_price = 45230.50, in thousandths

SessionTTL == SessionDays * DayLen

Ids == 1..NumIds
Emails == 1..NumEmails
Codes == 1..NumCodes
Tokens == 1..NumTokens
Slots == 1..NumSlots
NoToken == 0           \* no cookie / no Authorization header
None == 0              \* Python None for ids and document lookups
Never == -1            \* Python None for last_bonus_claim
Instants == (0..MaxEarly) \cup (SessionTTL..(SessionTTL + MaxLate))

VARIABLES
    users,        \* db.users: sequence of user documents, in insertion order
    sessions,     \* db.sessions: sequence of session documents
    predictions,  \* db.predictions: sequence of prediction documents
    now,          \* datetime.utcnow()
    req,          \* the handlers in flight, in the order they started
    ledger        \* history: per user record, the requests answered with success

store == <<users, sessions, predictions>>
vars == <<users, sessions, predictions, now, req, ledger>>

(* ---------------- responses ---------------- *)
Resp(status, detail) == [status |-> status, detail |-> detail]
\* the handler has not answered yet: it goes on to its next await
Pending == Resp(0, "pending")
Ok == Resp(200, "ok")
NotAuthenticated == Resp(401, "Not authenticated")
InsufficientQuota == Resp(400, "No free predictions remaining")
BonusAlreadyClaimed == Resp(400, "Bonus already claimed today")
AlreadyReferred == Resp(400, "Referral code already used")
UnknownReferralCode == Resp(404, "Invalid referral code")
SelfReferral == Resp(400, "Cannot use your own referral code")
SessionIdRequired == Resp(400, "Session ID required")
InvalidSession == Resp(401, "Invalid session")

(* ---------------- handlers in flight ---------------- *)
\* the local variables of a handler: which handler, where it is, the id of the
\* user it works on, and what it holds besides (unused fields stay 0); ref is
\* the referrer document a redemption has read, as its position in db.users
Handler == [op |-> "", pc |-> "", uid |-> 0, email |-> 0, token |-> 0,
            code |-> 0, ref |-> 0, t |-> 0]

At(r, op, pc) == r \in DOMAIN req /\ req[r].op = op /\ req[r].pc = pc

(* ---------------- store queries ---------------- *)
\* find_one: the first document, in insertion order, that matches
First(S) == IF S = {} THEN None ELSE CHOOSE i \in S : \A j \in S : i <= j

find_session(token) ==
    First({i \in DOMAIN sessions : sessions[i].session_token = token})

find_user_by_id(id) == First({i \in DOMAIN users : users[i].id = id})

find_user_by_email(email) == First({i \in DOMAIN users : users[i].email = email})

find_user_by_code(code) ==
    First({i \in DOMAIN users : users[i].referral_code = code})

(* ---------------- get_current_user ---------------- *)
\* the Authorization header consulted first
request_token_header_first(cookie, bearer) ==
    IF bearer # NoToken THEN bearer ELSE cookie

\* the cookie wins over the Authorization header
request_token(cookie, bearer) == IF cookie # NoToken THEN cookie ELSE bearer

\* the comparison with the boundary instant counted as expired
session_expired_at_boundary(s, t) == s.expires_at <= t

session_expired(s, t) == s.expires_at < t

\* a session whose user is missing resolved to the first user stored
get_current_user_missing_as_first(cookie, bearer) ==
    LET token == request_token(cookie, bearer) IN
    IF token = NoToken THEN None
    ELSE LET s == find_session(token) IN
         IF s = None \/ session_expired(sessions[s], now) THEN None
         ELSE IF find_user_by_id(sessions[s].user_id) = None
         THEN First(DOMAIN users)
         ELSE find_user_by_id(sessions[s].user_id)

\* index into users of the authenticated user, None when unauthenticated
get_current_user(cookie, bearer) ==
    LET token == request_token(cookie, bearer) IN
    IF token = NoToken THEN None
    ELSE LET s == find_session(token) IN
         IF s = None \/ session_expired(sessions[s], now) THEN None
         ELSE find_user_by_id(sessions[s].user_id)

Creds == (Tokens \cup {NoToken}) \X (Tokens \cup {NoToken})

(* ---------------- the history of successful requests ---------------- *)
\* ledger[i] counts, for the user record users[i], the bonus claims granted to
\* it, the referral grants it received (as referee or as referrer) and its
\* submissions accepted, each counted when the handler answers with success;
\* and the successful redemptions in which it was the caller (referee) and
\* those in which it was the record the code lookup returned (referrer)
NoEntry ==
    [claims |-> 0, grants |-> 0, submissions |-> 0, referee |-> 0, referrer |-> 0]

\* 1 for the record counted, 0 for any other
one_if(counted) == IF counted THEN 1 ELSE 0

\* a redemption succeeded: caller and looked_up are the records of its two
\* roles, credited the record its second update_one reached
redeemed(caller, looked_up, credited) ==
    [i \in DOMAIN ledger |->
        [ledger[i] EXCEPT
            !.grants = @ + one_if(i = caller) + one_if(i = credited),
            !.referee = @ + one_if(i = caller),
            !.referrer = @ + one_if(i = looked_up)]]

\* one more success of this kind for the record update_one({"id": id}) reaches
entered(id, kind) ==
    LET i == find_user_by_id(id) IN
    IF i = None THEN ledger ELSE [ledger EXCEPT ![i][kind] = @ + 1]

(* ---------------- initial state ---------------- *)
Init ==
    /\ ledger = << >>
    /\ users = << >>
    /\ sessions = << >>
    /\ predictions = << >>
    /\ now = 0
    /\ req = << >>

(* ---------------- the clock ---------------- *)
Tick ==
    /\ \E t \in Instants : t > now /\ (\A x \in Instants : x > now => t <= x) /\ now' = t
    /\ UNCHANGED <<users, sessions, predictions, req, ledger>>

\* a handler that answers before it awaits the store again changes nothing
Answer(resp) == resp # Pending /\ UNCHANGED vars

\* a handler that goes on to await the store is in flight until it answers
Start(rec) ==
    /\ Len(req) < NumSlots
    /\ req' = Append(req, rec)
    /\ UNCHANGED <<users, sessions, predictions, now, ledger>>

Finish(r) ==
    req' = [i \in 1..(Len(req) - 1) |-> IF i < r THEN req[i] ELSE req[i + 1]]

(* ---------------- the identity provider ---------------- *)
\* auth_data of the provider session that carries `token`: a token belongs to
\* one provider session, so it fixes the id and the e-mail the provider returns.
\* With the bounds as written: token 1 -> (id 1, email 1), token 2 -> (id 2,
\* email 2), token 3 -> (id 1, email 3), the known id with a changed e-mail.
auth_data(token) ==
    [id |-> ((token - 1) % NumIds) + 1,
     email |-> ((token - 1) % NumEmails) + 1,
     session_token |-> token]

(* ---------------- POST /api/auth/session ---------------- *)
new_user(id, email, code) ==
    [id |-> id, email |-> email, free_predictions |-> InitialFree,
     total_predictions_used |-> 0, referral_code |-> code, referred_by |-> None,
     referral_count |-> 0, referral_earnings |-> 0, last_bonus_claim |-> Never]

new_session(token, uid, t) ==
    [session_token |-> token, user_id |-> uid, expires_at |-> t + SessionTTL]

\* the provider's status left unchecked
create_session_response_unchecked(body) ==
    IF body = "missing" THEN SessionIdRequired ELSE Pending

\* the answer given before the store is read
create_session_response(body) ==
    IF body = "missing" THEN SessionIdRequired
    ELSE IF body = "rejected" THEN InvalidSession
    ELSE Pending

\* request body, provider call, db.users.find_one({"email": ...})
CreateSessionBegin(body, token) ==
    /\ IF create_session_response(body) # Pending
       THEN Answer(create_session_response(body))
       ELSE LET auth == auth_data(token)
                existing_user == find_user_by_email(auth.email) IN
            IF existing_user = None
            THEN Start([Handler EXCEPT !.op = "create_session", !.pc = "insert_user",
                              !.uid = auth.id, !.email = auth.email, !.token = token])
            ELSE Start([Handler EXCEPT !.op = "create_session", !.pc = "insert_session",
                              !.uid = users[existing_user].id, !.token = token])

\* referral_code = str(uuid.uuid4())[:8].upper(); db.users.insert_one(user_data)
CreateSessionInsertUser(r, code) ==
    /\ At(r, "create_session", "insert_user")
    /\ users' = Append(users, new_user(req[r].uid, req[r].email, code))
    /\ req' = [req EXCEPT ![r].pc = "insert_session", ![r].email = 0]
    /\ ledger' = Append(ledger, NoEntry)
    /\ UNCHANGED <<sessions, predictions, now>>

\* db.sessions.insert_one(session_data); answers 200
CreateSessionInsertSession(r) ==
    /\ At(r, "create_session", "insert_session")
    /\ sessions' = Append(sessions, new_session(req[r].token, req[r].uid, now))
    /\ Finish(r)
    /\ UNCHANGED <<users, predictions, now, ledger>>

(* ---------------- GET /api/auth/me ---------------- *)
get_me_response(cookie, bearer) ==
    IF get_current_user(cookie, bearer) = None THEN NotAuthenticated ELSE Ok

GetMe(cookie, bearer) == Answer(get_me_response(cookie, bearer))

(* ---------------- POST /api/auth/logout ---------------- *)
\* delete_one in place of delete_many: only the first session of the user goes
delete_first_session(uid) ==
    LET k == First({i \in DOMAIN sessions : sessions[i].user_id = uid}) IN
    IF k = None THEN sessions
    ELSE [i \in 1..(Len(sessions) - 1) |->
             IF i < k THEN sessions[i] ELSE sessions[i + 1]]

delete_sessions(uid) == SelectSeq(sessions, LAMBDA s : s.user_id # uid)

logout_response(cookie, bearer) ==
    IF get_current_user(cookie, bearer) = None THEN Ok ELSE Pending

LogoutBegin(cookie, bearer) ==
    /\ IF logout_response(cookie, bearer) # Pending
       THEN Answer(logout_response(cookie, bearer))
       ELSE Start([Handler EXCEPT !.op = "logout", !.pc = "delete",
                         !.uid = users[get_current_user(cookie, bearer)].id])

\* db.sessions.delete_many({"user_id": user.id}); answers 200
LogoutDelete(r) ==
    /\ At(r, "logout", "delete")
    /\ sessions' = delete_sessions(req[r].uid)
    /\ Finish(r)
    /\ UNCHANGED <<users, predictions, now, ledger>>

(* ---------------- GET /api/predictions ---------------- *)
get_predictions_response(cookie, bearer) ==
    IF get_current_user(cookie, bearer) = None THEN NotAuthenticated ELSE Ok

\* find({"user_id": uid}): the positions in db.predictions of the user's records
find_predictions(uid) == {k \in DOMAIN predictions : predictions[k].user_id = uid}

\* sort("created_at", 1): the oldest record first
sorts_before_ascending(i, j, stored_order) ==
    \/ predictions[i].created_at < predictions[j].created_at
    \/ /\ predictions[i].created_at = predictions[j].created_at
       /\ IF stored_order THEN i < j ELSE i > j

\* sort("created_at", -1): record i comes before record j.  The store fixes no
\* order among records of one instant: stored_order tells whether they come
\* in the order stored or in the reverse of it
sorts_before(i, j, stored_order) ==
    \/ predictions[i].created_at > predictions[j].created_at
    \/ /\ predictions[i].created_at = predictions[j].created_at
       /\ IF stored_order THEN i < j ELSE i > j

\* find(...).sort("created_at", -1).to_list(100): the positions in
\* db.predictions of the records returned, in the order returned
get_predictions_result(uid, stored_order) ==
    LET found == find_predictions(uid)
        rank == [k \in found |->
                    Cardinality({j \in found : sorts_before(j, k, stored_order)}) + 1]
        n == IF Cardinality(found) < ListLimit THEN Cardinality(found) ELSE ListLimit
    IN  [p \in 1..n |-> CHOOSE k \in found : rank[k] = p]

GetPredictions(cookie, bearer) == Answer(get_predictions_response(cookie, bearer))

(* ---------------- POST /api/predictions ---------------- *)
\* the check with the comparison off by one
quota_exhausted_below_zero(user) == user.free_predictions < 0

quota_exhausted(user) == user.free_predictions <= 0

\* the two checks made on the user get_current_user returned
create_prediction_response(cookie, bearer) ==
    LET user == get_current_user(cookie, bearer) IN
    IF user = None THEN NotAuthenticated
    ELSE IF quota_exhausted(users[user]) THEN InsufficientQuota
    ELSE Pending

\* the symbols a request body can carry; "DOGE" is in no table of the handler
Symbols == {"BITCOIN", "ethereum", "CARDANO", "DOGE"}

\* str.upper()
upper(symbol) == IF symbol = "ethereum" THEN "ETHEREUM" ELSE symbol

\* mock_prices, in thousandths
mock_prices ==
    [BITCOIN |-> 45230500, ETHEREUM |-> 2845750, BINANCECOIN |-> 312400,
     CARDANO |-> 485, SOLANA |-> 98750]

\* mock_prices.get(symbol.upper(), 45230.50)
mock_price(symbol) ==
    IF upper(symbol) \in DOMAIN mock_prices THEN mock_prices[upper(symbol)]
    ELSE DefaultPrice

\* what the price service can do: answer 200 with a price, answer another
\* status, or fail (exception, timeout, a 200 body without the coin)
LivePrices == {50000000}
Lookups ==
    [kind : {"price"}, usd : LivePrices] \cup [kind : {"status", "error"}, usd : {0}]
LiveLookup == [kind |-> "price", usd |-> CHOOSE p \in LivePrices : TRUE]

\* current_price after the try/except around the price service
current_price(symbol, lookup) ==
    IF lookup.kind = "price" THEN lookup.usd
    ELSE IF lookup.kind = "status" THEN DefaultPrice
    ELSE mock_price(symbol)

\* the id drawn per user: every record of a user has the same id
new_prediction_reusing_id(uid, t, symbol, lookup) ==
    [id |-> uid, user_id |-> uid, symbol |-> symbol,
     entry_price |-> current_price(symbol, lookup), created_at |-> t,
     is_free |-> TRUE]

\* "id": str(uuid.uuid4()) is a value no stored record has
new_prediction(uid, t, symbol, lookup) ==
    [id |-> Len(predictions) + 1, user_id |-> uid, symbol |-> symbol,
     entry_price |-> current_price(symbol, lookup), created_at |-> t,
     is_free |-> TRUE]

\* update_one({"id": uid}, {"$inc": {"free_predictions": -1, "total_predictions_used": 1}})
consume_one(uid) ==
    LET i == find_user_by_id(uid) IN
    IF i = None THEN users
    ELSE [users EXCEPT ![i].free_predictions = @ - 1,
                       ![i].total_predictions_used = @ + 1]

CreatePredictionBegin(cookie, bearer) ==
    /\ IF create_prediction_response(cookie, bearer) # Pending
       THEN Answer(create_prediction_response(cookie, bearer))
       ELSE Start([Handler EXCEPT !.op = "create_prediction", !.pc = "insert",
                         !.uid = users[get_current_user(cookie, bearer)].id])

\* db.predictions.insert_one(prediction_data)
CreatePredictionInsert(r, symbol, lookup) ==
    /\ At(r, "create_prediction", "insert")
    /\ predictions' = Append(predictions,
                             new_prediction(req[r].uid, now, symbol, lookup))
    /\ req' = [req EXCEPT ![r].pc = "update"]
    /\ UNCHANGED <<users, sessions, now, ledger>>

\* db.users.update_one(...); answers 200
CreatePredictionUpdate(r) ==
    /\ At(r, "create_prediction", "update")
    /\ users' = consume_one(req[r].uid)
    /\ Finish(r)
    /\ ledger' = entered(req[r].uid, "submissions")
    /\ UNCHANGED <<sessions, predictions, now>>

(* ---------------- POST /api/bonus/claim ---------------- *)
\* timedelta.days: whole days, rounded down
days(delta) == delta \div DayLen

\* the comparison off by one: a claim exactly one day old still blocks
bonus_claimed_within_two_days(user, t) ==
    user.last_bonus_claim # Never /\ days(t - user.last_bonus_claim) <= 1

bonus_claimed_today(user, t) ==
    user.last_bonus_claim # Never /\ days(t - user.last_bonus_claim) < 1

\* now = datetime.utcnow() and the check made on the user get_current_user returned
claim_daily_bonus_response(cookie, bearer) ==
    LET user == get_current_user(cookie, bearer) IN
    IF user = None THEN NotAuthenticated
    ELSE IF bonus_claimed_today(users[user], now) THEN BonusAlreadyClaimed
    ELSE Pending

\* update_one({"id": uid}, {"$inc": {"free_predictions": 1}, "$set": {"last_bonus_claim": t}})
grant_bonus(uid, t) ==
    LET i == find_user_by_id(uid) IN
    IF i = None THEN users
    ELSE [users EXCEPT ![i].free_predictions = @ + 1, ![i].last_bonus_claim = t]

ClaimDailyBonusBegin(cookie, bearer) ==
    /\ IF claim_daily_bonus_response(cookie, bearer) # Pending
       THEN Answer(claim_daily_bonus_response(cookie, bearer))
       ELSE Start([Handler EXCEPT !.op = "claim_daily_bonus", !.pc = "update",
                         !.uid = users[get_current_user(cookie, bearer)].id, !.t = now])

\* db.users.update_one(...); answers 200
ClaimDailyBonusUpdate(r) ==
    /\ At(r, "claim_daily_bonus", "update")
    /\ users' = grant_bonus(req[r].uid, req[r].t)
    /\ Finish(r)
    /\ ledger' = entered(req[r].uid, "claims")
    /\ UNCHANGED <<sessions, predictions, now>>

(* ---------------- GET /api/referral/stats ---------------- *)
\* the handler without its authentication check
get_referral_stats_unchecked(cookie, bearer) == Ok

get_referral_stats_response(cookie, bearer) ==
    IF get_current_user(cookie, bearer) = None THEN NotAuthenticated ELSE Ok

GetReferralStats(cookie, bearer) == Answer(get_referral_stats_response(cookie, bearer))

(* ---------------- POST /api/referral/use/{referral_code} ---------------- *)
already_referred(user) == user.referred_by # None

is_self_referral(referrer, uid) == referrer.id = uid

\* the check made on the user get_current_user returned
use_referral_code_response(cookie, bearer) ==
    LET user == get_current_user(cookie, bearer) IN
    IF user = None THEN NotAuthenticated
    ELSE IF already_referred(users[user]) THEN AlreadyReferred
    ELSE Pending

\* the two checks made on find_one({"referral_code": code}), for the caller uid
find_referrer_response(code, uid) ==
    LET referrer == find_user_by_code(code) IN
    IF referrer = None THEN UnknownReferralCode
    ELSE IF is_self_referral(users[referrer], uid) THEN SelfReferral
    ELSE Pending

\* update_one({"id": uid}, {"$set": {"referred_by": referrer["id"]},
\*                           "$inc": {"free_predictions": 1}})
mark_referred(uid, referrer) ==
    LET i == find_user_by_id(uid) IN
    IF i = None THEN users
    ELSE [users EXCEPT ![i].referred_by = referrer.id, ![i].free_predictions = @ + 1]

\* update_one({"id": referrer["id"]}, {"$inc": {"referral_count": 1,
\*                       "referral_earnings": 1, "free_predictions": 1}})
\* the referrer's counters raised without the bonus prediction
credit_referrer_counters_only(referrer) ==
    LET i == find_user_by_id(referrer.id) IN
    IF i = None THEN users
    ELSE [users EXCEPT ![i].referral_count = @ + 1, ![i].referral_earnings = @ + 1]

credit_referrer(referrer) ==
    LET i == find_user_by_id(referrer.id) IN
    IF i = None THEN users
    ELSE [users EXCEPT ![i].referral_count = @ + 1, ![i].referral_earnings = @ + 1,
                       ![i].free_predictions = @ + 1]

UseReferralCodeBegin(cookie, bearer, code) ==
    /\ IF use_referral_code_response(cookie, bearer) # Pending
       THEN Answer(use_referral_code_response(cookie, bearer))
       ELSE Start([Handler EXCEPT !.op = "use_referral_code", !.pc = "find_referrer",
                         !.uid = users[get_current_user(cookie, bearer)].id,
                         !.code = code])

\* the self-referral check made after the referee has been updated
UseReferralCodeFindLateCheck(r) ==
    /\ At(r, "use_referral_code", "find_referrer")
    /\ LET referrer == find_user_by_code(req[r].code) IN
       IF referrer = None
       THEN /\ Finish(r)
            /\ UNCHANGED <<users, sessions, predictions, now, ledger>>
       ELSE IF is_self_referral(users[referrer], req[r].uid)
       THEN /\ users' = mark_referred(req[r].uid, users[referrer])
            /\ Finish(r)
            /\ UNCHANGED <<sessions, predictions, now, ledger>>
       ELSE /\ req' = [req EXCEPT ![r].pc = "update_referee", ![r].code = 0,
                          ![r].ref = referrer]
            /\ UNCHANGED <<users, sessions, predictions, now, ledger>>

\* referrer = db.users.find_one({"referral_code": referral_code}) and its two checks
UseReferralCodeFind(r) ==
    /\ At(r, "use_referral_code", "find_referrer")
    /\ IF find_referrer_response(req[r].code, req[r].uid) # Pending
       THEN /\ Finish(r)
            /\ UNCHANGED <<users, sessions, predictions, now, ledger>>
       ELSE /\ req' = [req EXCEPT ![r].pc = "update_referee", ![r].code = 0,
                          ![r].ref = find_user_by_code(req[r].code)]
            /\ UNCHANGED <<users, sessions, predictions, now, ledger>>

\* the first db.users.update_one: the referee
UseReferralCodeUpdateReferee(r) ==
    /\ At(r, "use_referral_code", "update_referee")
    /\ users' = mark_referred(req[r].uid, users[req[r].ref])
    /\ req' = [req EXCEPT ![r].pc = "update_referrer"]
    /\ UNCHANGED <<sessions, predictions, now, ledger>>

\* the second db.users.update_one: the referrer; answers 200
UseReferralCodeUpdateReferrer(r) ==
    /\ At(r, "use_referral_code", "update_referrer")
    /\ users' = credit_referrer(users[req[r].ref])
    /\ Finish(r)
    /\ ledger' = redeemed(find_user_by_id(req[r].uid), req[r].ref,
                           find_user_by_id(users[req[r].ref].id))
    /\ UNCHANGED <<sessions, predictions, now>>

(* ---------------- the explored part of the state space ---------------- *)
\* The store is unbounded; the model explores the states within one of these
\* scopes, each deep in one direction and shallow in the others.
NoBonus == \A i \in DOMAIN users : users[i].last_bonus_claim = Never
NoReferral ==
    \A i \in DOMAIN users : users[i].referred_by = None /\ users[i].referral_count = 0
InFlightOnly(ops) == \A r \in DOMAIN req : req[r].op \in ops
\* every record is of one symbol at a price the service returned
LivePredictions ==
    \A k \in DOMAIN predictions :
        /\ predictions[k].symbol = "BITCOIN"
        /\ predictions[k].entry_price = current_price("BITCOIN", LiveLookup)
\* with one user in the store, which provider account it is makes no difference
FirstAccount ==
    \A i \in DOMAIN users :
        users[i].id = 1 /\ users[i].email = 1 /\ users[i].referral_code = 1

\* where no code is redeemed, which codes the users hold makes no difference
OneCode == \A i \in DOMAIN users : users[i].referral_code = 1

\* one user spending the quota
QuotaScope ==
    /\ Len(users) <= 1 /\ Len(sessions) <= 1 /\ Len(predictions) <= MaxPredictions
    /\ now = 0 /\ NoBonus /\ FirstAccount /\ LivePredictions
    /\ InFlightOnly({"create_session", "create_prediction"})
\* one user claiming bonuses as the clock advances
BonusScope ==
    /\ Len(users) <= 1 /\ Len(sessions) <= 1 /\ Len(predictions) = 0 /\ FirstAccount
    /\ InFlightOnly({"create_session", "claim_daily_bonus"})
\* users redeeming referral codes
ReferralScope ==
    /\ Len(users) <= MaxUsers /\ Len(sessions) <= MaxSessions
    /\ Len(predictions) = 0 /\ now = 0 /\ NoBonus
    /\ InFlightOnly({"create_session", "use_referral_code"})
\* sessions of several users, created, expiring and deleted
SessionScope ==
    /\ Len(users) <= MaxUsers /\ Len(sessions) <= MaxSessions
    /\ Len(predictions) = 0 /\ NoBonus /\ NoReferral /\ OneCode
    /\ InFlightOnly({"create_session", "logout"})
\* more user records, with handlers that run one after the other
AccountScope ==
    /\ Len(users) <= MaxAccounts /\ Len(sessions) <= MaxAccounts
    /\ Len(predictions) = 0 /\ now = 0 /\ NoBonus /\ Len(req) <= 1
    /\ InFlightOnly({"create_session", "use_referral_code"})

\* account k has id k, e-mail k and referral code k
DistinctAccounts ==
    \A i \in DOMAIN users :
        users[i].id = i /\ users[i].email = i /\ users[i].referral_code = i
\* session k is the one session of account k
DistinctSessions ==
    \A k \in DOMAIN sessions :
        sessions[k].session_token = k /\ sessions[k].user_id = k
\* account 1 claiming, submitting and being credited as referrer at once,
\* with account 2 the referee
LedgerScope ==
    /\ Len(users) <= MaxUsers /\ Len(sessions) <= MaxSessions
    /\ Len(predictions) <= 1 /\ now = 0 /\ DistinctAccounts /\ DistinctSessions
    /\ LivePredictions
    /\ \A i \in DOMAIN users : i # 1 => users[i].last_bonus_claim = Never
    /\ \A k \in DOMAIN predictions : predictions[k].user_id = 1
    /\ \A r \in DOMAIN req :
          req[r].op \in {"create_prediction", "claim_daily_bonus"} => req[r].uid = 1
\* one user submitting for every symbol, whatever the price service does
PriceScope ==
    /\ Len(users) <= 1 /\ Len(sessions) <= 1 /\ Len(predictions) <= MaxPriced
    /\ now = 0 /\ NoBonus /\ FirstAccount /\ Len(req) <= 1
    /\ InFlightOnly({"create_session", "create_prediction"})

Scope ==
    \/ QuotaScope \/ BonusScope \/ ReferralScope \/ SessionScope \/ AccountScope
    \/ PriceScope \/ LedgerScope

(* ---------------- the system ---------------- *)
Next ==
    \/ Tick /\ Scope'
    \/ \E body \in {"missing", "rejected", "ok"}, token \in Tokens :
          CreateSessionBegin(body, token) /\ Scope'
    \/ \E r \in Slots, code \in Codes : CreateSessionInsertUser(r, code) /\ Scope'
    \/ \E r \in Slots : CreateSessionInsertSession(r) /\ Scope'
    \/ \E c \in Creds : GetMe(c[1], c[2]) /\ Scope'
    \/ \E c \in Creds : LogoutBegin(c[1], c[2]) /\ Scope'
    \/ \E r \in Slots : LogoutDelete(r) /\ Scope'
    \/ \E c \in Creds : GetPredictions(c[1], c[2]) /\ Scope'
    \/ \E c \in Creds : CreatePredictionBegin(c[1], c[2]) /\ Scope'
    \/ \E r \in Slots, symbol \in Symbols, lookup \in Lookups :
          CreatePredictionInsert(r, symbol, lookup) /\ Scope'
    \/ \E r \in Slots : CreatePredictionUpdate(r) /\ Scope'
    \/ \E c \in Creds : ClaimDailyBonusBegin(c[1], c[2]) /\ Scope'
    \/ \E r \in Slots : ClaimDailyBonusUpdate(r) /\ Scope'
    \/ \E c \in Creds : GetReferralStats(c[1], c[2]) /\ Scope'
    \/ \E c \in Creds, code \in Codes :
          UseReferralCodeBegin(c[1], c[2], code) /\ Scope'
    \/ \E r \in Slots : UseReferralCodeFind(r) /\ Scope'
    \/ \E r \in Slots : UseReferralCodeUpdateReferee(r) /\ Scope'
    \/ \E r \in Slots : UseReferralCodeUpdateReferrer(r) /\ Scope'

Spec == Init /\ [][Next]_vars

(* ---------------- listings of a long prediction log ---------------- *)
\* The store after many submissions: two users, each signed in, and n records.
\* owners tells whose the records are (all of user 1, or every fiftieth of
\* user 2), times
\* how created_at runs along the store (one instant for all, one instant per
\* record, or neighbours swapped, as when a handler that read the clock first
\* inserts second).
stored_owner(owners, k) == IF owners = "shared" /\ k % 50 = 0 THEN 2 ELSE 1

stored_time(times, k) ==
    IF times = "same" THEN 0
    ELSE IF times = "rising" THEN k
    ELSE IF k % 2 = 1 THEN k + 1 ELSE k - 1

stored_predictions(n, owners, times) ==
    [k \in 1..n |-> [id |-> k, user_id |-> stored_owner(owners, k),
                     symbol |-> "BITCOIN",
                     entry_price |-> current_price("BITCOIN", LiveLookup),
                     created_at |-> stored_time(times, k), is_free |-> TRUE]]

stored_user(id, log) ==
    [new_user(id, id, id) EXCEPT
        !.free_predictions = InitialFree,
        !.total_predictions_used = Len(SelectSeq(log, LAMBDA p : p.user_id = id))]

\* the user's submissions, and the bonus claims that paid for them
stored_entry(user) ==
    [NoEntry EXCEPT
        !.claims = user.free_predictions + user.total_predictions_used - InitialFree,
        !.submissions = user.total_predictions_used]

ListInit ==
    \E n \in (0..MinListed) \cup ((ListLimit - 1)..MaxListed), owners \in {"one", "shared"},
       times \in {"same", "rising", "swapped"} :
        /\ predictions = stored_predictions(n, owners, times)
        /\ users = <<stored_user(1, predictions), stored_user(2, predictions)>>
        /\ now = n + 1
        /\ sessions = <<new_session(1, 1, now), new_session(2, 2, now)>>
        /\ req = << >>
        /\ ledger = <<stored_entry(users[1]), stored_entry(users[2])>>

\* one submission at most is added to the stored ones (now is one past their number)
ListScope ==
    /\ Len(predictions) <= MaxListed
    /\ Len(predictions) <= now
    /\ Len(req) <= 1
    /\ LivePredictions

ListNext ==
    \/ \E c \in Creds : GetPredictions(c[1], c[2]) /\ ListScope'
    \/ \E c \in Creds : CreatePredictionBegin(c[1], c[2]) /\ ListScope'
    \/ \E r \in Slots, symbol \in Symbols, lookup \in Lookups :
          CreatePredictionInsert(r, symbol, lookup) /\ ListScope'
    \/ \E r \in Slots : CreatePredictionUpdate(r) /\ ListScope'

ListSpec == ListInit /\ [][ListNext]_vars

(* ---------------- sessions whose user record is gone ---------------- *)
\* No handler deletes a user record, but the store is shared with whatever
\* else administers it: the store after the provider's accounts have logged in
\* once per token at instant 0 and the user records outside `kept` have been
\* removed from db.users, their sessions left behind.
remaining_users(kept) ==
    SelectSeq([k \in 1..NumIds |-> new_user(k, k, ((k - 1) % NumCodes) + 1)],
              LAMBDA u : u.id \in kept)

issued_sessions(tokens) ==
    SelectSeq([k \in 1..NumTokens |-> new_session(k, auth_data(k).id, 0)],
              LAMBDA s : s.session_token \in tokens)

OrphanInit ==
    \E kept \in SUBSET Ids, tokens \in SUBSET Tokens :
        /\ users = remaining_users(kept)
        /\ sessions = issued_sessions(tokens)
        /\ predictions = << >>
        /\ now = 0
        /\ req = << >>
        /\ ledger = [i \in DOMAIN users |-> NoEntry]

\* handlers run one after the other, and one record at most is submitted
OrphanScope == Len(predictions) <= 1 /\ Len(req) <= 1 /\ LivePredictions

OrphanNext ==
    \/ Tick /\ OrphanScope'
    \/ \E c \in Creds : GetMe(c[1], c[2]) /\ OrphanScope'
    \/ \E c \in Creds : LogoutBegin(c[1], c[2]) /\ OrphanScope'
    \/ \E r \in Slots : LogoutDelete(r) /\ OrphanScope'
    \/ \E c \in Creds : GetPredictions(c[1], c[2]) /\ OrphanScope'
    \/ \E c \in Creds : CreatePredictionBegin(c[1], c[2]) /\ OrphanScope'
    \/ \E r \in Slots, symbol \in Symbols, lookup \in Lookups :
          CreatePredictionInsert(r, symbol, lookup) /\ OrphanScope'
    \/ \E r \in Slots : CreatePredictionUpdate(r) /\ OrphanScope'
    \/ \E c \in Creds : ClaimDailyBonusBegin(c[1], c[2]) /\ OrphanScope'
    \/ \E r \in Slots : ClaimDailyBonusUpdate(r) /\ OrphanScope'
    \/ \E c \in Creds : GetReferralStats(c[1], c[2]) /\ OrphanScope'
    \/ \E c \in Creds, code \in Codes :
          UseReferralCodeBegin(c[1], c[2], code) /\ OrphanScope'
    \/ \E r \in Slots : UseReferralCodeFind(r) /\ OrphanScope'
    \/ \E r \in Slots : UseReferralCodeUpdateReferee(r) /\ OrphanScope'
    \/ \E r \in Slots : UseReferralCodeUpdateReferrer(r) /\ OrphanScope'

OrphanSpec == OrphanInit /\ [][OrphanNext]_vars

(* ======================= the claims ======================= *)
UserOf(c) == get_current_user(c[1], c[2])
PredictionsOf(uid) == {k \in DOMAIN predictions : predictions[k].user_id = uid}
SessionsOf(uid) == {k \in DOMAIN sessions : sessions[k].user_id = uid}

\* C1: in every reachable state, under any interleaving of submissions, bonus
\* claims and redemptions, every user's free_predictions is >= 0.
C1_FreePredictionsNeverNegative ==
    \A i \in DOMAIN users : users[i].free_predictions >= 0

\* C2: a submission by an authenticated user whose free_predictions is <= 0 is
\* answered InsufficientQuota (400) and changes nothing: no prediction is
\* appended and no user field changes.
C2_ExhaustedQuotaRejected ==
    [][\/ UNCHANGED vars
       \/ \A c \in Creds :
             (UserOf(c) # None /\ users[UserOf(c)].free_predictions <= 0)
             => /\ create_prediction_response(c[1], c[2]) = InsufficientQuota
                /\ ~CreatePredictionBegin(c[1], c[2])]_vars

\* a new user has made exactly InitialFree submissions, one after the other, and
\* the next one is refused with exactly InitialFree records stored
C2_Witness ==
    \E c \in Creds :
        /\ UserOf(c) # None
        /\ users[UserOf(c)].free_predictions = 0
        /\ users[UserOf(c)].total_predictions_used = InitialFree
        /\ Cardinality(PredictionsOf(users[UserOf(c)].id)) = InitialFree
        /\ req = << >>
        /\ create_prediction_response(c[1], c[2]) = InsufficientQuota

\* C3: after a successful bonus claim at time t no claim of that user succeeds
\* at a time less than one whole day from t: a claim is granted only when the
\* store records no granted claim within a day of it.
C3_OneBonusPerDay ==
    [][\/ UNCHANGED users
       \/ \A r \in Slots :
             ClaimDailyBonusUpdate(r)
             => LET last == users[find_user_by_id(req[r].uid)].last_bonus_claim IN
                \/ last = Never
                \/ days(req[r].t - last) >= 1
                \/ days(last - req[r].t) >= 1]_vars

\* C4: whenever a redemption fails (unauthenticated, AlreadyReferred,
\* UnknownReferralCode, SelfReferral) the whole store is unchanged.
C4_FailedRedemptionChangesNothing ==
    [][\/ UNCHANGED store
       \/ /\ \A c \in Creds, code \in Codes :
                ~(use_referral_code_response(c[1], c[2]) # Pending
                  /\ UseReferralCodeBegin(c[1], c[2], code))
          /\ \A r \in Slots :
                ~(At(r, "use_referral_code", "find_referrer")
                  /\ find_referrer_response(req[r].code, req[r].uid) # Pending
                  /\ UseReferralCodeFind(r))]_vars

\* a referred user is signed in (a further redemption is AlreadyReferred) while a
\* redemption in flight is about to fail on its code
C4_Witness ==
    /\ \E c \in Creds : use_referral_code_response(c[1], c[2]) = AlreadyReferred
    /\ \E r \in DOMAIN req :
          /\ At(r, "use_referral_code", "find_referrer")
          /\ find_referrer_response(req[r].code, req[r].uid)
                \in {UnknownReferralCode, SelfReferral}

\* C5: a successful redemption by referee A of the code of another user B sets
\* A.referred_by = B.id and adds exactly 1 to A.free_predictions, and adds
\* exactly 1 to B.free_predictions, B.referral_count and B.referral_earnings;
\* nothing else in the store changes.  B is the user record the code lookup
\* returned, A the record the caller is authenticated as.
C5_RedemptionEffect ==
    [][\/ UNCHANGED vars
       \/ \A r \in Slots :
             /\ (/\ At(r, "use_referral_code", "find_referrer")
                 /\ UseReferralCodeFind(r)
                 /\ Len(req') = Len(req))
                => LET b == req'[r].ref IN
                   /\ b \in DOMAIN users
                   /\ users[b].referral_code = req[r].code
                   /\ users[b].id # req[r].uid
             /\ UseReferralCodeUpdateReferee(r)
                => LET a == find_user_by_id(req[r].uid)
                       b == req[r].ref IN
                   /\ a # None /\ a # b
                   /\ users' = [users EXCEPT
                                  ![a].referred_by = users[b].id,
                                  ![a].free_predictions = users[a].free_predictions + 1]
                   /\ UNCHANGED <<sessions, predictions>>
             /\ UseReferralCodeUpdateReferrer(r)
                => LET b == req[r].ref IN
                   /\ users' = [users EXCEPT
                                  ![b].free_predictions = users[b].free_predictions + 1,
                                  ![b].referral_count = users[b].referral_count + 1,
                                  ![b].referral_earnings = users[b].referral_earnings + 1]
                   /\ UNCHANGED <<sessions, predictions>>]_vars

\* the answer to a redemption of `code` that runs with no other handler between
\* its steps
redemption_response(c, code) ==
    IF use_referral_code_response(c[1], c[2]) # Pending
    THEN use_referral_code_response(c[1], c[2])
    ELSE find_referrer_response(code, users[UserOf(c)].id)

\* C6: for every authenticated user, in every state, redeeming the user's own
\* referral_code is answered SelfReferral.
C6_OwnCodeAlwaysSelfReferral ==
    \A c \in Creds :
        UserOf(c) # None
        => redemption_response(c, users[UserOf(c)].referral_code) = SelfReferral

\* C7: referred_by goes from absent to present at most once per user (it is
\* written only while absent, and never changed or cleared afterwards), and it
\* never equals the user's own id.
C7_ReferredBySetOnce ==
    [][UNCHANGED users \/
       /\ \A r \in Slots :
             UseReferralCodeUpdateReferee(r)
             => users[find_user_by_id(req[r].uid)].referred_by = None
       /\ \A i \in DOMAIN users :
             /\ users[i].referred_by # None
                => users'[i].referred_by = users[i].referred_by
             /\ users'[i].referred_by # users'[i].id]_vars

\* C8 as claimed: resolution is unauthenticated whenever no session holds the
\* token or the session's expires_at <= now, the boundary included.
C8_ExpiredAtBoundary ==
    \A c \in Creds :
        LET s == find_session(request_token(c[1], c[2])) IN
        (s = None \/ sessions[s].expires_at <= now) => UserOf(c) = None

\* C8 as amended: resolution is unauthenticated when no session holds the token
\* or the session's expires_at < now, the record still being stored; while
\* expires_at >= now, the boundary expires_at = now included, it yields the
\* user the session names.
C8_ExpiredAfterBoundary ==
    \A c \in Creds :
        LET s == find_session(request_token(c[1], c[2])) IN
        /\ (s = None \/ sessions[s].expires_at < now) => UserOf(c) = None
        /\ (s # None /\ sessions[s].expires_at >= now)
           => /\ UserOf(c) # None
              /\ users[UserOf(c)].id = sessions[s].user_id

\* a stored session is at its boundary and still resolves to its user
C8_Witness ==
    \E token \in Tokens :
        /\ find_session(token) # None
        /\ sessions[find_session(token)].expires_at = now
        /\ get_current_user(NoToken, token) # None
        /\ get_current_user(token, NoToken) # None

\* the tokens of the sessions stored for the user with this id
TokensOf(uid) == {sessions[k].session_token : k \in SessionsOf(uid)}
\* the sessions stored for the users with other ids, in order
SessionsOfOthers(uid) == SelectSeq(sessions, LAMBDA s : s.user_id # uid)

\* C9: when a logout of an authenticated user completes, no session with that
\* user's id remains and every token issued to the user resolves to
\* unauthenticated, while the sessions of other users are unchanged; a token
\* resolves again only once a session has been inserted; a logout without a
\* resolvable session is answered 200 and deletes nothing.
C9_LogoutDeletesEverySession ==
    [][\/ UNCHANGED vars
       \/ /\ \A r \in Slots, uid \in Ids :
                (LogoutDelete(r) /\ uid = req[r].uid)
                => /\ SessionsOf(uid)' = {}
                   /\ \A token \in TokensOf(uid) :
                         \A c \in Creds :
                            request_token(c[1], c[2]) = token => UserOf(c)' = None
                   /\ SessionsOfOthers(uid)' = SessionsOfOthers(uid)
                   /\ Len(req') = Len(req) - 1
                   /\ UNCHANGED <<users, predictions>>
          /\ \A c \in Creds :
                (UserOf(c) = None /\ UserOf(c)' # None) => Len(sessions') > Len(sessions)
          /\ \A c \in Creds :
                UserOf(c) = None
                => /\ logout_response(c[1], c[2]) = Ok
                   /\ ~LogoutBegin(c[1], c[2])]_vars

\* a user who had signed in has logged out and holds no session, while the
\* session of a user with another id is still stored and resolves
C9_Witness ==
    /\ req = << >>
    /\ \E i \in DOMAIN users :
          /\ SessionsOf(users[i].id) = {}
          /\ \E token \in Tokens :
                /\ get_current_user(NoToken, token) # None
                /\ users[get_current_user(NoToken, token)].id # users[i].id

\* C10: every protected operation invoked without a resolvable session is
\* answered 401 and leaves users, sessions and predictions unchanged, whatever
\* referral code comes with it.
C10_UnauthenticatedRejected ==
    [][\/ UNCHANGED vars
       \/ \A c \in Creds :
             UserOf(c) = None
             => /\ get_me_response(c[1], c[2]) = NotAuthenticated
                /\ get_predictions_response(c[1], c[2]) = NotAuthenticated
                /\ create_prediction_response(c[1], c[2]) = NotAuthenticated
                /\ claim_daily_bonus_response(c[1], c[2]) = NotAuthenticated
                /\ get_referral_stats_response(c[1], c[2]) = NotAuthenticated
                /\ use_referral_code_response(c[1], c[2]) = NotAuthenticated
                /\ ~GetMe(c[1], c[2])
                /\ ~GetPredictions(c[1], c[2])
                /\ ~CreatePredictionBegin(c[1], c[2])
                /\ ~ClaimDailyBonusBegin(c[1], c[2])
                /\ ~GetReferralStats(c[1], c[2])
                /\ \A code \in Codes : ~UseReferralCodeBegin(c[1], c[2], code)]_vars

\* users are stored, one request carries the token of an expired session,
\* another a token no session holds, a third no token at all
C10_Witness ==
    /\ users # << >>
    /\ \E token \in Tokens :
          /\ find_session(token) # None
          /\ get_me_response(NoToken, token) = NotAuthenticated
    /\ \E token \in Tokens :
          /\ find_session(token) = None
          /\ use_referral_code_response(token, NoToken) = NotAuthenticated
    /\ claim_daily_bonus_response(NoToken, NoToken) = NotAuthenticated

\* C11: POST /api/auth/session answers 400 when session_id is missing and 401
\* when the provider rejects it, and in both cases no user record and no
\* session record is created or modified.
C11_RejectedLoginChangesNothing ==
    [][\/ UNCHANGED vars
       \/ /\ create_session_response("missing") = SessionIdRequired
          /\ create_session_response("rejected") = InvalidSession
          /\ \A body \in {"missing", "rejected"}, token \in Tokens :
                ~CreateSessionBegin(body, token)]_vars

\* users and sessions are stored when a login without session_id and a login
\* the provider rejects arrive
C11_Witness ==
    /\ users # << >> /\ sessions # << >>
    /\ Len(req) < NumSlots
    /\ create_session_response("missing").status = 400
    /\ create_session_response("rejected").status = 401

\* the session named by a token is stored and not expired
valid_token(token) ==
    /\ token # NoToken
    /\ find_session(token) # None
    /\ ~session_expired(sessions[find_session(token)], now)

\* the request is authenticated as the user the session of `token` names
authenticated_by(c, token) ==
    /\ UserOf(c) # None
    /\ users[UserOf(c)].id = sessions[find_session(token)].user_id

\* C12 as claimed: a request is authenticated as U whenever either carrier
\* holds a token of a valid session of U, whatever the other carrier holds.
C12_EitherCarrierAuthenticates ==
    \A c \in Creds :
        /\ valid_token(c[1]) => authenticated_by(c, c[1])
        /\ valid_token(c[2]) => authenticated_by(c, c[2])

\* C12 as amended: a request is authenticated as U whenever the cookie holds a
\* token of a valid session of U, whatever the header holds, or no cookie is
\* sent and the header holds such a token; a cookie that names no valid
\* session makes the request unauthenticated, whatever the header holds.
C12_CookieBeforeHeader ==
    \A c \in Creds :
        /\ valid_token(c[1]) => authenticated_by(c, c[1])
        /\ (c[1] = NoToken /\ valid_token(c[2])) => authenticated_by(c, c[2])
        /\ (c[1] # NoToken /\ ~valid_token(c[1])) => UserOf(c) = None

\* one stored session has expired and another is valid: the valid token
\* authenticates from either carrier alone and from the cookie beside the
\* expired token, and not from the header beside the expired cookie
C12_Witness ==
    \E old, new \in Tokens :
        /\ find_session(old) # None /\ ~valid_token(old) /\ valid_token(new)
        /\ authenticated_by(<<new, NoToken>>, new)
        /\ authenticated_by(<<NoToken, new>>, new)
        /\ authenticated_by(<<new, old>>, new)
        /\ UserOf(<<old, new>>) = None

\* the listing of the user's records is correct: only records of the user,
\* each once, newest first, min(n, ListLimit) of them, and no record left out
\* is newer than the oldest record returned
listing_correct(uid, list) ==
    LET n == Cardinality(PredictionsOf(uid))
        listed == {list[p] : p \in DOMAIN list}
    IN  /\ listed \subseteq PredictionsOf(uid)
        /\ Cardinality(listed) = Len(list)
        /\ Len(list) = IF n < ListLimit THEN n ELSE ListLimit
        /\ \A p \in 1..(Len(list) - 1) :
              predictions[list[p]].created_at >= predictions[list[p + 1]].created_at
        /\ \A k \in PredictionsOf(uid) \ listed :
              /\ Len(list) > 0
              /\ predictions[k].created_at <= predictions[list[Len(list)]].created_at

\* C13: GET /api/predictions of an authenticated user returns only records
\* whose user_id is the user's id, newest first, min(n, 100) of the user's n
\* records, the newest ones when n > 100, and it modifies no state.
C13_ListingNewestFirstCapped ==
    /\ [](/\ \A c \in Creds :
               UserOf(c) # None => get_predictions_response(c[1], c[2]) = Ok
          /\ \A i \in DOMAIN users, stored_order \in BOOLEAN :
               LET list == get_predictions_result(users[i].id, stored_order)
               IN  listing_correct(users[i].id, list))
    /\ [][\A c \in Creds : GetPredictions(c[1], c[2]) => UNCHANGED vars]_vars

\* a user holds more than ListLimit records, made at different instants not in
\* stored order, among records of another user, and the listing is cut
C13_Witness ==
    \E c \in Creds :
        /\ UserOf(c) # None
        /\ Cardinality(PredictionsOf(users[UserOf(c)].id)) > ListLimit
        /\ \E k \in DOMAIN predictions : predictions[k].user_id # users[UserOf(c)].id
        /\ \E k \in DOMAIN predictions :
              k > 1 /\ predictions[k].created_at < predictions[k - 1].created_at
        /\ Len(get_predictions_result(users[UserOf(c)].id, TRUE)) = ListLimit

\* the users whose referred_by names the user with this id
RefereesOf(uid) == {a \in DOMAIN users : users[a].referred_by = uid}

\* C14: in every state another request can observe, for every user B,
\* B.referral_count is the number of users whose referred_by is B.id: no
\* referee is marked as referred while the referrer is not credited.
C14_ReferralSidesTogether ==
    \A b \in DOMAIN users :
        users[b].referral_count = Cardinality(RefereesOf(users[b].id))

\* C15: in every state another request can observe, for every user the number
\* of the user's Prediction records equals total_predictions_used: no record is
\* stored without its debit.
C15_RecordAndDebitTogether ==
    \A i \in DOMAIN users :
        Cardinality(PredictionsOf(users[i].id)) = users[i].total_predictions_used

\* C16: the precondition of a bonus claim is enforced where the claim is
\* written: a claim is granted only to a user whose stored last_bonus_claim is
\* absent or a whole day before it, so of two concurrent claims of one
\* eligible user the second is not granted.
C16_ClaimGrantedOnlyWhenEligible ==
    [][\/ UNCHANGED users
       \/ \A r \in Slots, i \in DOMAIN users :
             (ClaimDailyBonusUpdate(r) /\ i = find_user_by_id(req[r].uid))
             => /\ ~bonus_claimed_today(users[i], req[r].t)
                /\ users'[i].free_predictions = users[i].free_predictions + 1]_vars

\* C18: a bonus claim succeeds when last_bonus_claim is absent or at least one
\* whole day before now (so a user can always claim again once a whole day has
\* passed since the last claim recorded); on success free_predictions grows by
\* exactly 1, last_bonus_claim becomes the now of the claim, and every other
\* field of the user and every other user is unchanged.
C18_BonusClaimEffect ==
    [][\/ UNCHANGED vars
       \/ /\ \A c \in Creds :
                (/\ UserOf(c) # None
                 /\ \/ users[UserOf(c)].last_bonus_claim = Never
                    \/ now - users[UserOf(c)].last_bonus_claim >= DayLen)
                => claim_daily_bonus_response(c[1], c[2]) = Pending
          /\ \A r \in Slots, i \in DOMAIN users :
                (ClaimDailyBonusUpdate(r) /\ i = find_user_by_id(req[r].uid))
                => /\ users' = [users EXCEPT
                                  ![i].free_predictions = users[i].free_predictions + 1,
                                  ![i].last_bonus_claim = req[r].t]
                   /\ req[r].t <= now
                   /\ Len(req') = Len(req) - 1
                   /\ UNCHANGED <<sessions, predictions>>]_vars

\* a user who claimed exactly one day ago is signed in and may claim again
C18_Witness ==
    \E c \in Creds :
        /\ UserOf(c) # None
        /\ users[UserOf(c)].last_bonus_claim # Never
        /\ now - users[UserOf(c)].last_bonus_claim = DayLen
        /\ users[UserOf(c)].free_predictions > InitialFree
        /\ claim_daily_bonus_response(c[1], c[2]) = Pending

\* C19: in every reachable state no two distinct users have the same
\* referral_code, so a code lookup identifies at most one referrer.
C19_ReferralCodesUnique ==
    \A i, j \in DOMAIN users :
        i # j => users[i].referral_code # users[j].referral_code

\* C20: on any failure of the price lookup (exception, timeout, non-200
\* answer) the submission still succeeds and entry_price is the per-symbol
\* default for a symbol of the fallback table, the global default for any
\* other symbol; when the lookup succeeds entry_price is the price looked up.
C20_FallbackPricePerSymbol ==
    [][\/ UNCHANGED predictions
       \/ \A r \in Slots, symbol \in Symbols, lookup \in Lookups :
             CreatePredictionInsert(r, symbol, lookup)
             => LET stored == predictions'[Len(predictions')] IN
                /\ Len(predictions') = Len(predictions) + 1
                /\ stored.symbol = symbol
                /\ lookup.kind = "price" => stored.entry_price = lookup.usd
                /\ (lookup.kind # "price" /\ upper(symbol) \in DOMAIN mock_prices)
                   => stored.entry_price = mock_prices[upper(symbol)]
                /\ (lookup.kind # "price" /\ upper(symbol) \notin DOMAIN mock_prices)
                   => stored.entry_price = DefaultPrice]_vars

\* a handler in flight that is to write, or has written, the quota of the
\* user with this id
touches(r, id) ==
    \/ req[r].op # "create_session" /\ req[r].uid = id
    \/ req[r].ref # None /\ users[req[r].ref].id = id

\* C17: no quota increment or decrement is lost: once all requests touching a
\* user have completed, the user's free_predictions is its initial value plus
\* the bonus claims granted plus the referral grants received minus the
\* submissions accepted.
C17_NoLostQuotaUpdate ==
    \A i \in DOMAIN users :
        (\A r \in DOMAIN req : ~touches(r, users[i].id))
        => users[i].free_predictions
              = InitialFree + ledger[i].claims + ledger[i].grants - ledger[i].submissions

\* a user has been granted two bonus claims at one instant (they ran
\* concurrently), has received a referral grant and has submitted, and all
\* requests have completed
C17_Witness ==
    \E i \in DOMAIN users :
        /\ ledger[i].claims > 1 /\ ledger[i].grants > 0 /\ ledger[i].submissions > 0
        /\ req = << >>

\* C21: a redemption checks AlreadyReferred, then UnknownReferralCode, then
\* SelfReferral: a caller whose referred_by is set is answered AlreadyReferred
\* for every code; a caller whose referred_by is absent is answered
\* UnknownReferralCode for a code no user holds, and SelfReferral only for the
\* caller's own code.
C21_RedemptionFailureOrder ==
    /\ [](\A c \in Creds, code \in Codes :
             UserOf(c) # None
             => LET caller == users[UserOf(c)]
                    resp == redemption_response(c, code) IN
                /\ caller.referred_by # None => resp = AlreadyReferred
                /\ (caller.referred_by = None /\ find_user_by_code(code) = None)
                   => resp = UnknownReferralCode
                /\ (caller.referred_by = None /\ resp = SelfReferral)
                   => code = caller.referral_code)
    /\ [][\/ UNCHANGED vars
          \/ \A r \in Slots, i \in DOMAIN users :
                (/\ At(r, "use_referral_code", "find_referrer")
                 /\ UseReferralCodeFind(r)
                 /\ i = find_user_by_id(req[r].uid))
                => LET resp == find_referrer_response(req[r].code, req[r].uid) IN
                   /\ find_user_by_code(req[r].code) = None
                      => resp = UnknownReferralCode
                   /\ resp = SelfReferral => req[r].code = users[i].referral_code]_vars

\* the request carries the token of a stored, unexpired session whose user_id
\* is the id of no stored user
orphaned(c) ==
    LET token == request_token(c[1], c[2]) IN
    /\ valid_token(token)
    /\ find_user_by_id(sessions[find_session(token)].user_id) = None

\* C22: a token whose session is stored and unexpired but whose user_id names
\* no stored user resolves to unauthenticated: every protected operation is
\* answered 401, not a server error, and changes no state.
C22_OrphanedSessionUnauthenticated ==
    /\ [](\A c \in Creds :
             orphaned(c)
             => /\ UserOf(c) = None
                /\ get_me_response(c[1], c[2]) = NotAuthenticated
                /\ get_predictions_response(c[1], c[2]) = NotAuthenticated
                /\ create_prediction_response(c[1], c[2]) = NotAuthenticated
                /\ claim_daily_bonus_response(c[1], c[2]) = NotAuthenticated
                /\ get_referral_stats_response(c[1], c[2]) = NotAuthenticated
                /\ use_referral_code_response(c[1], c[2]) = NotAuthenticated)
    /\ [][\/ UNCHANGED vars
          \/ \A c \in Creds :
                orphaned(c)
                => /\ ~GetMe(c[1], c[2])
                   /\ ~GetPredictions(c[1], c[2])
                   /\ ~CreatePredictionBegin(c[1], c[2])
                   /\ ~ClaimDailyBonusBegin(c[1], c[2])
                   /\ ~GetReferralStats(c[1], c[2])
                   /\ \A code \in Codes : ~UseReferralCodeBegin(c[1], c[2], code)]_vars

\* one token names an orphaned session and is refused while another token
\* still authenticates a stored user, who has submitted a prediction
C22_Witness ==
    /\ predictions # << >>
    /\ \E c \in Creds :
          orphaned(c) /\ create_prediction_response(c[1], c[2]) = NotAuthenticated
    /\ \E c \in Creds : UserOf(c) # None

\* C23: total_predictions_used, referral_count and referral_earnings of a user
\* never decrease; referral_count and referral_earnings of user B change only
\* in a redemption whose looked-up referrer is B, and total_predictions_used
\* only in a successful submission by that user.
C23_CountersMonotonic ==
    [][\/ UNCHANGED users
       \/ /\ Len(users') >= Len(users)
          /\ \A i \in DOMAIN users :
                /\ users'[i].total_predictions_used >= users[i].total_predictions_used
                /\ users'[i].referral_count >= users[i].referral_count
                /\ users'[i].referral_earnings >= users[i].referral_earnings
                /\ (\/ users'[i].referral_count # users[i].referral_count
                    \/ users'[i].referral_earnings # users[i].referral_earnings)
                   => \E r \in Slots :
                         UseReferralCodeUpdateReferrer(r) /\ req[r].ref = i
                /\ users'[i].total_predictions_used # users[i].total_predictions_used
                   => \E r \in Slots :
                         /\ CreatePredictionUpdate(r)
                         /\ find_user_by_id(req[r].uid) = i]_vars

\* C24: the prediction log is append-only: no step of any operation removes a
\* stored record or changes a field of it, and a submission adds exactly one
\* record, with is_free = true, user_id the submitting user's id and an id no
\* stored record has.
C24_PredictionLogAppendOnly ==
    [][\/ UNCHANGED predictions
       \/ /\ Len(predictions') = Len(predictions) + 1
          /\ \A k \in DOMAIN predictions : predictions'[k] = predictions[k]
          /\ \E r \in Slots, uid \in Ids :
                /\ At(r, "create_prediction", "insert")
                /\ uid = req[r].uid
                /\ find_user_by_id(uid) # None
                /\ req' = [req EXCEPT ![r].pc = "update"]
                /\ LET added == predictions'[Len(predictions')] IN
                   /\ added.is_free = TRUE
                   /\ added.user_id = uid
                   /\ \A k \in DOMAIN predictions : predictions[k].id # added.id]_vars

\* a record is stored, and since then a bonus was claimed, a code redeemed and
\* a user logged out, with no request left in flight
C24_Witness ==
    /\ predictions # << >>
    /\ req = << >>
    /\ \E i \in DOMAIN users : users[i].last_bonus_claim # Never
    /\ \E i \in DOMAIN users : users[i].referred_by # None
    /\ \E i \in DOMAIN users : SessionsOf(users[i].id) = {}

\* C25: in every reachable state there is at most one user record per
\* identity: under any interleaving of logins, two concurrent first logins of
\* one identity and a login with a known id and a changed e-mail included, no
\* two user records share an id or an e-mail, and a login leaves every stored
\* user record as it is.
C25_OneRecordPerIdentity ==
    /\ [](\A i, j \in DOMAIN users :
             i # j => users[i].id # users[j].id /\ users[i].email # users[j].email)
    /\ [][\/ UNCHANGED users
          \/ \A r \in Slots :
                (At(r, "create_session", "insert_user")
                 \/ At(r, "create_session", "insert_session"))
                => \A i \in DOMAIN users : users'[i] = users[i]]_vars

\* C26: in every state with no request in flight, for every user
\* free_predictions + total_predictions_used is InitialFree plus the user's
\* successful bonus claims plus the successful redemptions in which the user
\* was the referee plus those in which the user was the referrer, and the
\* number of the user's prediction records is total_predictions_used.
C26_QuotaConservation ==
    req = << >>
    => \A i \in DOMAIN users :
          /\ users[i].free_predictions + users[i].total_predictions_used
                = InitialFree + ledger[i].claims + ledger[i].referee
                  + ledger[i].referrer
          /\ Cardinality(PredictionsOf(users[i].id))
                = users[i].total_predictions_used

====
